---- MODULE Spec2Model ----
(***************************************************************************)
(* The record store declared by analytics/models.py: the tables Dashboard, *)
(* Chart, DataSource and Report (and the auth User table that Dashboard    *)
(* references), with the create / save / delete / list operations that the *)
(* field declarations give each model.  A field omitted at creation takes  *)
(* its declared default; auto_now_add / auto_now fields are stamped from   *)
(* the clock; ForeignKey columns carry a database constraint and an        *)
(* on_delete=CASCADE rule; `choices` are examined by model validation      *)
(* (full_clean) only, which save() does not run by itself.                 *)
(***************************************************************************)
EXTENDS Integers, Sequences, FiniteSets, TLC

VARIABLES users, dashboards, charts, datasources, reports, seq, now, last, txn

store == <<users, dashboards, charts, datasources, reports>>
vars == <<users, dashboards, charts, datasources, reports, seq, now, last, txn>>

\* ---------------------------------------------------------------- bounds
MaxUsers == 2
MaxDashboards == 2
MaxCharts == 2
MaxDataSources == 1
MaxReports == 1
MaxClock == 1

\* SpecFields and SpecTime: rows per table (Dashboard in SpecTime apart).
FldMaxRows == 1
TimeMaxRows == 1
TimeMaxDashboards == 2

\* The primary keys a caller may name: those handed out so far and the next
\* one, which no row has.
Keys(model) == 1..seq[model]

\* ------------------------------------------------------- table helpers
\* A table is a function from the primary keys in use to the rows.
Put(t, id, r) == [i \in DOMAIN t \cup {id} |-> IF i = id THEN r ELSE t[i]]

Without(t, ids) == [i \in DOMAIN t \ ids |-> t[i]]

\* The value of a keyword argument, or the field's default when it is omitted.
Field(f, name, default) == IF name \in DOMAIN f THEN f[name] ELSE default

\* setattr of every supplied field on a fetched instance.
Assign(r, f) == [k \in DOMAIN r |-> IF k \in DOMAIN f THEN f[k] ELSE r[k]]

\* updated_at without auto_now.
NoTouch(r) == r

\* auto_now=True: the column is overwritten with the clock on every save.
Touch(r) == [r EXCEPT !.updated_at = now]

\* Model.objects.get(pk=id): the row, or DoesNotExist.
Exists(t, id) == id \in DOMAIN t

NoneDeleted == <<0, 0, 0>>

\* No Dashboard.delete() of a second caller is under way.
Idle == [pc |-> "idle", id |-> 0, charts |-> {}, reports |-> {}]

\* What the last call returned: its outcome, the primary key it was about,
\* delete()'s per-model counts (Dashboard, Chart, Report) and list's rows.
Done(op, id, res, del) ==
    last' = [op |-> op, id |-> id, result |-> res, deleted |-> del, rows |-> <<>>]

Fail(op, id, res) ==
    /\ Done(op, id, res, NoneDeleted)
    /\ UNCHANGED <<store, seq, now, txn>>

\* ------------------------------------------------------------ Dashboard
NewDashboard(f) ==
    [title |-> f.title,
     description |-> Field(f, "description", ""),
     owner |-> f.owner,
     is_public |-> Field(f, "is_public", FALSE),
     created_at |-> now,
     updated_at |-> now]

\* The foreign-key constraint of the owner column.
DashboardConstraints(r) == r.owner \in users

\* Model.full_clean(): the owner must resolve.
DashboardFullClean(r) == r.owner \in users

\* ---------------------------------------------------------------- Chart
CHART_TYPES == {"bar", "line", "pie", "scatter", "area"}

\* The width and height defaults exchanged.
NewChartSwapped(f) ==
    [title |-> f.title,
     chart_type |-> f.chart_type,
     dashboard |-> f.dashboard,
     data_source |-> f.data_source,
     config |-> f.config,
     position_x |-> Field(f, "position_x", 0),
     position_y |-> Field(f, "position_y", 0),
     width |-> Field(f, "width", 300),
     height |-> Field(f, "height", 400),
     created_at |-> now,
     updated_at |-> now]

NewChart(f) ==
    [title |-> f.title,
     chart_type |-> f.chart_type,
     dashboard |-> f.dashboard,
     data_source |-> f.data_source,
     config |-> f.config,
     position_x |-> Field(f, "position_x", 0),
     position_y |-> Field(f, "position_y", 0),
     width |-> Field(f, "width", 400),
     height |-> Field(f, "height", 300),
     created_at |-> now,
     updated_at |-> now]

\* The dashboard column without its database constraint.
NoChartConstraint(r) == TRUE

ChartConstraints(r) == r.dashboard \in DOMAIN dashboards

ChartFullClean(r) ==
    /\ r.chart_type \in CHART_TYPES
    /\ r.dashboard \in DOMAIN dashboards

\* ----------------------------------------------------------- DataSource
NewDataSource(f) ==
    [name |-> f.name,
     source_type |-> f.source_type,
     connection_config |-> f.connection_config,
     query |-> f.query,
     refresh_interval |-> Field(f, "refresh_interval", 3600),
     last_refresh |-> Field(f, "last_refresh", {}),
     is_active |-> Field(f, "is_active", TRUE),
     created_at |-> now,
     updated_at |-> now]

\* refresh_interval declared as a positive field.
PositiveRefreshInterval(r) == r.refresh_interval > 0

\* IntegerField declares no validator and no choices: every integer passes.
DataSourceFullClean(r) == r.refresh_interval \in Int

\* --------------------------------------------------------------- Report
REPORT_FORMATS == {"pdf", "html", "csv", "json"}

NewReport(f) ==
    [title |-> f.title,
     dashboard |-> f.dashboard,
     schedule |-> f.schedule,
     recipients |-> f.recipients,
     format |-> Field(f, "format", "pdf"),
     is_active |-> Field(f, "is_active", TRUE),
     last_run |-> Field(f, "last_run", {}),
     next_run |-> Field(f, "next_run", {}),
     created_at |-> now,
     updated_at |-> now]

ReportConstraints(r) == r.dashboard \in DOMAIN dashboards

ReportFullClean(r) ==
    /\ r.format \in REPORT_FORMATS
    /\ r.dashboard \in DOMAIN dashboards

\* ------------------------------------------------- on_delete = CASCADE
\* The rows the deletion collector gathers through each foreign key.
\* Dashboard.owner without the cascade rule.
NoDashboardsOwnedBy(us) == {}

DashboardsOwnedBy(us) == {d \in DOMAIN dashboards : dashboards[d].owner \in us}

\* A collector that does not filter the charts by their dashboard.
AllCharts(ds) == DOMAIN charts

ChartsOf(ds) == {c \in DOMAIN charts : charts[c].dashboard \in ds}

\* Report.dashboard without the cascade rule.
NoReportsOf(ds) == {}

ReportsOf(ds) == {r \in DOMAIN reports : reports[r].dashboard \in ds}

\* ----------------------------------------------------------------- Init
Init ==
    /\ users = {}
    /\ dashboards = <<>>
    /\ charts = <<>>
    /\ datasources = <<>>
    /\ reports = <<>>
    /\ seq = [User |-> 1, Dashboard |-> 1, Chart |-> 1, DataSource |-> 1, Report |-> 1]
    /\ now = 0
    /\ txn = Idle
    /\ last = [op |-> "none", id |-> 0, result |-> "ok", deleted |-> NoneDeleted, rows |-> <<>>]

\* -------------------------------------------------------------- actions
Tick ==
    /\ now < MaxClock
    /\ now' = now + 1
    /\ UNCHANGED <<store, seq, last, txn>>

CreateUser ==
    /\ users' = users \cup {seq.User}
    /\ seq' = [seq EXCEPT !.User = @ + 1]
    /\ Done("create_user", seq.User, "ok", NoneDeleted)
    /\ UNCHANGED <<dashboards, charts, datasources, reports, now, txn>>

\* User.delete(): cascades through Dashboard.owner, then through the
\* dashboards' charts and reports.
DeleteUser(u) ==
    IF u \notin users THEN Fail("delete_user", u, "DoesNotExist")
    ELSE LET ds == DashboardsOwnedBy({u})
             cs == ChartsOf(ds)
             rs == ReportsOf(ds)
         IN /\ users' = users \ {u}
            /\ dashboards' = Without(dashboards, ds)
            /\ charts' = Without(charts, cs)
            /\ reports' = Without(reports, rs)
            /\ Done("delete_user", u, "ok",
                    <<Cardinality(ds), Cardinality(cs), Cardinality(rs)>>)
            /\ UNCHANGED <<datasources, seq, now, txn>>

\* Dashboard.objects.create(**f), preceded by full_clean() when clean.
CreateDashboard(f, clean) ==
    LET r == NewDashboard(f)
        id == seq.Dashboard
    IN IF clean /\ ~DashboardFullClean(r)
          THEN Fail("create_dashboard", 0, "ValidationError")
       ELSE IF ~DashboardConstraints(r)
          THEN Fail("create_dashboard", 0, "IntegrityError")
       ELSE /\ dashboards' = Put(dashboards, id, r)
            /\ seq' = [seq EXCEPT !.Dashboard = @ + 1]
            /\ Done("create_dashboard", id, "ok", NoneDeleted)
            /\ UNCHANGED <<users, charts, datasources, reports, now, txn>>

\* get(pk=id), setattr of the supplied fields, [full_clean()], save().
UpdateDashboard(id, f, clean) ==
    IF ~Exists(dashboards, id) THEN Fail("update_dashboard", id, "DoesNotExist")
    ELSE LET r == Touch(Assign(dashboards[id], f))
         IN IF clean /\ ~DashboardFullClean(r)
               THEN Fail("update_dashboard", id, "ValidationError")
            ELSE IF ~DashboardConstraints(r)
               THEN Fail("update_dashboard", id, "IntegrityError")
            ELSE /\ dashboards' = Put(dashboards, id, r)
                 /\ Done("update_dashboard", id, "ok", NoneDeleted)
                 /\ UNCHANGED <<users, charts, datasources, reports, seq, now, txn>>

\* Dashboard.delete(): cascades through Chart.dashboard and Report.dashboard.
DeleteDashboard(id) ==
    IF ~Exists(dashboards, id) THEN Fail("delete_dashboard", id, "DoesNotExist")
    ELSE LET cs == ChartsOf({id})
             rs == ReportsOf({id})
         IN /\ dashboards' = Without(dashboards, {id})
            /\ charts' = Without(charts, cs)
            /\ reports' = Without(reports, rs)
            /\ Done("delete_dashboard", id, "ok", <<1, Cardinality(cs), Cardinality(rs)>>)
            /\ UNCHANGED <<users, datasources, seq, now, txn>>

CreateChart(f, clean) ==
    LET r == NewChart(f)
        id == seq.Chart
    IN IF clean /\ ~ChartFullClean(r)
          THEN Fail("create_chart", 0, "ValidationError")
       ELSE IF ~ChartConstraints(r)
          THEN Fail("create_chart", 0, "IntegrityError")
       ELSE /\ charts' = Put(charts, id, r)
            /\ seq' = [seq EXCEPT !.Chart = @ + 1]
            /\ Done("create_chart", id, "ok", NoneDeleted)
            /\ UNCHANGED <<users, dashboards, datasources, reports, now, txn>>

UpdateChart(id, f, clean) ==
    IF ~Exists(charts, id) THEN Fail("update_chart", id, "DoesNotExist")
    ELSE LET r == Touch(Assign(charts[id], f))
         IN IF clean /\ ~ChartFullClean(r)
               THEN Fail("update_chart", id, "ValidationError")
            ELSE IF ~ChartConstraints(r)
               THEN Fail("update_chart", id, "IntegrityError")
            ELSE /\ charts' = Put(charts, id, r)
                 /\ Done("update_chart", id, "ok", NoneDeleted)
                 /\ UNCHANGED <<users, dashboards, datasources, reports, seq, now, txn>>

DeleteChart(id) ==
    IF ~Exists(charts, id) THEN Fail("delete_chart", id, "DoesNotExist")
    ELSE /\ charts' = Without(charts, {id})
         /\ Done("delete_chart", id, "ok", <<0, 1, 0>>)
         /\ UNCHANGED <<users, dashboards, datasources, reports, seq, now, txn>>

CreateDataSource(f, clean) ==
    LET r == NewDataSource(f)
        id == seq.DataSource
    IN IF clean /\ ~DataSourceFullClean(r)
          THEN Fail("create_datasource", 0, "ValidationError")
       ELSE /\ datasources' = Put(datasources, id, r)
            /\ seq' = [seq EXCEPT !.DataSource = @ + 1]
            /\ Done("create_datasource", id, "ok", NoneDeleted)
            /\ UNCHANGED <<users, dashboards, charts, reports, now, txn>>

UpdateDataSource(id, f, clean) ==
    IF ~Exists(datasources, id) THEN Fail("update_datasource", id, "DoesNotExist")
    ELSE LET r == Touch(Assign(datasources[id], f))
         IN IF clean /\ ~DataSourceFullClean(r)
               THEN Fail("update_datasource", id, "ValidationError")
            ELSE /\ datasources' = Put(datasources, id, r)
                 /\ Done("update_datasource", id, "ok", NoneDeleted)
                 /\ UNCHANGED <<users, dashboards, charts, reports, seq, now, txn>>

DeleteDataSource(id) ==
    IF ~Exists(datasources, id) THEN Fail("delete_datasource", id, "DoesNotExist")
    ELSE /\ datasources' = Without(datasources, {id})
         /\ Done("delete_datasource", id, "ok", NoneDeleted)
         /\ UNCHANGED <<users, dashboards, charts, reports, seq, now, txn>>

CreateReport(f, clean) ==
    LET r == NewReport(f)
        id == seq.Report
    IN IF clean /\ ~ReportFullClean(r)
          THEN Fail("create_report", 0, "ValidationError")
       ELSE IF ~ReportConstraints(r)
          THEN Fail("create_report", 0, "IntegrityError")
       ELSE /\ reports' = Put(reports, id, r)
            /\ seq' = [seq EXCEPT !.Report = @ + 1]
            /\ Done("create_report", id, "ok", NoneDeleted)
            /\ UNCHANGED <<users, dashboards, charts, datasources, now, txn>>

UpdateReport(id, f, clean) ==
    IF ~Exists(reports, id) THEN Fail("update_report", id, "DoesNotExist")
    ELSE LET r == Touch(Assign(reports[id], f))
         IN IF clean /\ ~ReportFullClean(r)
               THEN Fail("update_report", id, "ValidationError")
            ELSE IF ~ReportConstraints(r)
               THEN Fail("update_report", id, "IntegrityError")
            ELSE /\ reports' = Put(reports, id, r)
                 /\ Done("update_report", id, "ok", NoneDeleted)
                 /\ UNCHANGED <<users, dashboards, charts, datasources, seq, now, txn>>

DeleteReport(id) ==
    IF ~Exists(reports, id) THEN Fail("delete_report", id, "DoesNotExist")
    ELSE /\ reports' = Without(reports, {id})
         /\ Done("delete_report", id, "ok", <<0, 0, 1>>)
         /\ UNCHANGED <<users, dashboards, charts, datasources, seq, now, txn>>

\* ------------------------------- Dashboard.delete() beside other callers
\* A second caller's Dashboard.delete(), statement by statement.  The
\* collector follows the CASCADE foreign keys from the Dashboard; the DELETE
\* statements then run in one transaction whose effects the other callers
\* see at commit only.  txn holds the rows deleted so far.

\* The collector starts from Dashboard d.
TxCollect(d) ==
    /\ txn.pc = "idle"
    /\ Exists(dashboards, d)
    /\ txn' = [pc |-> "collected", id |-> d, charts |-> {}, reports |-> {}]
    /\ UNCHANGED <<store, seq, now, last>>

\* DELETE of the Charts and Reports that reference the Dashboard.
TxDeleteRelated ==
    /\ txn.pc = "collected"
    /\ txn' = [txn EXCEPT !.pc = "related", !.charts = ChartsOf({txn.id}),
                          !.reports = ReportsOf({txn.id})]
    /\ UNCHANGED <<store, seq, now, last>>

\* DELETE of the Dashboard row itself, which locks it until the commit.
TxDeleteRow ==
    /\ txn.pc = "related"
    /\ txn' = [txn EXCEPT !.pc = "row"]
    /\ UNCHANGED <<store, seq, now, last>>

\* The dashboard column without its database constraint.
NoBlockingRows(d, cs, rs) == {}

\* The rows whose foreign key still names Dashboard d once the Charts cs and
\* the Reports rs are gone: the constraint refuses the commit for them.
BlockingRows(d, cs, rs) ==
    {<<"Chart", c>> : c \in ChartsOf({d}) \ cs}
    \cup {<<"Report", r>> : r \in ReportsOf({d}) \ rs}

\* COMMIT: the constraints are checked; the deletions become visible
\* together, or the transaction is rolled back with IntegrityError.
TxCommit ==
    /\ txn.pc = "row"
    /\ txn' = Idle
    /\ IF BlockingRows(txn.id, txn.charts, txn.reports) # {}
          THEN /\ Done("delete_dashboard", txn.id, "IntegrityError", NoneDeleted)
               /\ UNCHANGED <<store, seq, now>>
       ELSE /\ dashboards' = Without(dashboards, {txn.id})
            /\ charts' = Without(charts, txn.charts)
            /\ reports' = Without(reports, txn.reports)
            /\ last' = [op |-> "delete_dashboard", id |-> txn.id, result |-> "ok",
                        deleted |-> <<1, Cardinality(txn.charts), Cardinality(txn.reports)>>,
                        rows |-> <<>>]
            /\ UNCHANGED <<users, datasources, seq, now>>

\* A writer that inserts a row naming Dashboard d waits while the deleting
\* transaction holds the lock of that row.
Locked(d) == txn.pc = "row" /\ txn.id = d

\* ------------------------------------------------------------- list
\* The rows a filter keeps.
Matching(flt) ==
    IF flt = "list_public" THEN {d \in DOMAIN dashboards : dashboards[d].is_public}
    ELSE DOMAIN dashboards

\* Meta.ordering = ['created_at'], the minus sign lost.
AscendingOrdering(a, b) == a.created_at <= b.created_at

\* Meta.ordering = ['-created_at']: row a may come before row b.
DashboardOrdering(a, b) == a.created_at >= b.created_at

\* ORDER BY: every sequence the database may return for these rows; rows
\* that compare equal come in any order.
RECURSIVE OrderBy(_)
OrderBy(ids) ==
    IF ids = {} THEN {<<>>}
    ELSE UNION {{<<m>> \o s : s \in OrderBy(ids \ {m})} :
                m \in {x \in ids : \A y \in ids :
                          DashboardOrdering(dashboards[x], dashboards[y])}}

\* list(Dashboard.objects.filter(...)) with the default ordering.
ListDashboards(flt) ==
    \E rows \in OrderBy(Matching(flt)) :
       /\ last' = [op |-> flt, id |-> 0, result |-> "ok", deleted |-> NoneDeleted,
                   rows |-> rows]
       /\ UNCHANGED <<store, seq, now, txn>>


\* ------------------------------------------ field sets and behaviours
\* Field sets that vary the foreign keys only.
RelDashboardInputs == {[title |-> "Sales", owner |-> u] : u \in Keys("User")}

RelChartInputs ==
    {[title |-> "Revenue", chart_type |-> "bar", dashboard |-> d,
      data_source |-> "src", config |-> "cfg"] : d \in Keys("Dashboard")}

RelReportInputs ==
    {[title |-> "Weekly", dashboard |-> d, schedule |-> "0 9 * * MON",
      recipients |-> "a@x.com"] : d \in Keys("Dashboard")}

RelDataSourceInputs ==
    {[name |-> "warehouse", source_type |-> "database",
      connection_config |-> "dsn", query |-> "SELECT 1"]}

Next ==
    \/ seq.User <= MaxUsers /\ CreateUser
    \/ \E u \in Keys("User") : DeleteUser(u)
    \/ seq.Dashboard <= MaxDashboards
       /\ \E f \in RelDashboardInputs, clean \in BOOLEAN : CreateDashboard(f, clean)
    \/ \E id \in Keys("Dashboard"), f \in RelDashboardInputs, clean \in BOOLEAN :
          UpdateDashboard(id, f, clean)
    \/ \E id \in Keys("Dashboard") : DeleteDashboard(id)
    \/ seq.Chart <= MaxCharts
       /\ \E f \in RelChartInputs, clean \in BOOLEAN : CreateChart(f, clean)
    \/ \E id \in Keys("Chart"), f \in RelChartInputs, clean \in BOOLEAN :
          UpdateChart(id, f, clean)
    \/ \E id \in Keys("Chart") : DeleteChart(id)
    \/ seq.DataSource <= MaxDataSources
       /\ \E f \in RelDataSourceInputs, clean \in BOOLEAN : CreateDataSource(f, clean)
    \/ \E id \in Keys("DataSource") : DeleteDataSource(id)
    \/ seq.Report <= MaxReports
       /\ \E f \in RelReportInputs, clean \in BOOLEAN : CreateReport(f, clean)
    \/ \E id \in Keys("Report"), f \in RelReportInputs, clean \in BOOLEAN :
          UpdateReport(id, f, clean)
    \/ \E id \in Keys("Report") : DeleteReport(id)

Spec == Init /\ [][Next]_vars

\* Field sets that vary the fields with defaults, the enumerated fields and
\* refresh_interval.
FldDashboardInputs ==
    {[title |-> "Sales", owner |-> u] : u \in Keys("User")}
    \cup
    {[title |-> "Ops", owner |-> 1, description |-> "on call", is_public |-> TRUE]}

FldChartInputs ==
    {[title |-> "Revenue", chart_type |-> t, dashboard |-> d,
      data_source |-> "src", config |-> "cfg"] :
        t \in {"bar", "donut"}, d \in Keys("Dashboard")}
    \cup
    {[title |-> "Share", chart_type |-> "pie", dashboard |-> 1,
      data_source |-> "src", config |-> "cfg",
      position_x |-> 10, position_y |-> 20, width |-> 640, height |-> 480]}

FldChartUpdates == {[chart_type |-> t] : t \in {"line", "donut"}}

FldDataSourceInputs ==
    RelDataSourceInputs
    \cup
    {[name |-> "feed", source_type |-> "api", connection_config |-> "url",
      query |-> "GET /", refresh_interval |-> n, last_refresh |-> {0},
      is_active |-> FALSE] : n \in {60, -5}}

FldDataSourceUpdates == {[refresh_interval |-> n] : n \in {0, 120}}

FldReportInputs ==
    {[title |-> "Weekly", dashboard |-> d, schedule |-> "0 9 * * MON",
      recipients |-> "a@x.com"] : d \in Keys("Dashboard")}
    \cup
    {[title |-> "Daily", dashboard |-> 1, schedule |-> "0 6 * * *",
      recipients |-> "b@x.com", format |-> fmt, is_active |-> FALSE,
      last_run |-> {0}, next_run |-> {1}] : fmt \in {"csv", "xml"}}

FldReportUpdates == {[format |-> fmt] : fmt \in {"json", "xml"}}

NextFields ==
    \/ seq.User <= FldMaxRows /\ CreateUser
    \/ \E u \in Keys("User") : DeleteUser(u)
    \/ seq.Dashboard <= FldMaxRows
       /\ \E f \in FldDashboardInputs, clean \in BOOLEAN : CreateDashboard(f, clean)
    \/ \E id \in Keys("Dashboard"), clean \in BOOLEAN :
          UpdateDashboard(id, [is_public |-> TRUE], clean)
    \/ \E id \in Keys("Dashboard") : DeleteDashboard(id)
    \/ seq.Chart <= FldMaxRows
       /\ \E f \in FldChartInputs, clean \in BOOLEAN : CreateChart(f, clean)
    \/ \E id \in Keys("Chart"), f \in FldChartUpdates, clean \in BOOLEAN :
          UpdateChart(id, f, clean)
    \/ \E id \in Keys("Chart") : DeleteChart(id)
    \/ seq.DataSource <= FldMaxRows
       /\ \E f \in FldDataSourceInputs, clean \in BOOLEAN : CreateDataSource(f, clean)
    \/ \E id \in Keys("DataSource"), f \in FldDataSourceUpdates, clean \in BOOLEAN :
          UpdateDataSource(id, f, clean)
    \/ \E id \in Keys("DataSource") : DeleteDataSource(id)
    \/ seq.Report <= FldMaxRows
       /\ \E f \in FldReportInputs, clean \in BOOLEAN : CreateReport(f, clean)
    \/ \E id \in Keys("Report"), f \in FldReportUpdates, clean \in BOOLEAN :
          UpdateReport(id, f, clean)
    \/ \E id \in Keys("Report") : DeleteReport(id)

SpecFields == Init /\ [][NextFields]_vars

\* Field sets for the runs in which the clock advances.
TimeDashboardInputs ==
    {[title |-> "Sales", owner |-> 1],
     [title |-> "Sales", owner |-> 1, is_public |-> TRUE]}

TimeChartInputs == {f \in RelChartInputs : f.dashboard = 1}

TimeReportInputs == {f \in RelReportInputs : f.dashboard = 1}

NextTime ==
    \/ Tick
    \/ seq.User <= TimeMaxRows /\ CreateUser
    \/ seq.Dashboard <= TimeMaxDashboards
       /\ \E f \in TimeDashboardInputs : CreateDashboard(f, FALSE)
    \/ \E id \in Keys("Dashboard"), f \in TimeDashboardInputs : UpdateDashboard(id, f, FALSE)
    \/ \E id \in Keys("Dashboard") : DeleteDashboard(id)
    \/ \E flt \in {"list_all", "list_public"} : ListDashboards(flt)
    \/ seq.Chart <= TimeMaxRows /\ \E f \in TimeChartInputs : CreateChart(f, FALSE)
    \/ \E id \in Keys("Chart"), f \in TimeChartInputs : UpdateChart(id, f, FALSE)
    \/ seq.DataSource <= TimeMaxRows
       /\ \E f \in RelDataSourceInputs : CreateDataSource(f, FALSE)
    \/ \E id \in Keys("DataSource"), f \in RelDataSourceInputs : UpdateDataSource(id, f, FALSE)
    \/ seq.Report <= TimeMaxRows /\ \E f \in TimeReportInputs : CreateReport(f, FALSE)
    \/ \E id \in Keys("Report"), f \in TimeReportInputs : UpdateReport(id, f, FALSE)

SpecTime == Init /\ [][NextTime]_vars

NextConc ==
    \/ seq.User <= MaxUsers /\ CreateUser
    \/ seq.Dashboard <= MaxDashboards
       /\ \E f \in RelDashboardInputs : CreateDashboard(f, FALSE)
    \/ seq.Chart <= MaxCharts
       /\ \E f \in RelChartInputs : ~Locked(f.dashboard) /\ CreateChart(f, FALSE)
    \/ seq.Report <= MaxReports
       /\ \E f \in RelReportInputs : ~Locked(f.dashboard) /\ CreateReport(f, FALSE)
    \/ \E d \in Keys("Dashboard") : TxCollect(d)
    \/ TxDeleteRelated
    \/ TxDeleteRow
    \/ TxCommit

SpecConc == Init /\ [][NextConc]_vars

\* ---------------------------------------------------------------- claims
Failed == last.result \in {"ValidationError", "IntegrityError"}

\* C1: delete(D) of a stored Dashboard D removes D and every Chart and every
\* Report whose dashboard reference is D; afterwards get on D and on each of
\* those rows raises DoesNotExist.
C1_DeleteDashboardCascades ==
    [][\A d \in Keys("Dashboard") :
          (last'.op = "delete_dashboard" /\ DeleteDashboard(d) /\ Exists(dashboards, d)) =>
             /\ last'.result = "ok"
             /\ ~Exists(dashboards', d)
             /\ \A c \in DOMAIN charts :
                   charts[c].dashboard = d => ~Exists(charts', c)
             /\ \A r \in DOMAIN reports :
                   reports[r].dashboard = d => ~Exists(reports', r)]_vars

\* A Dashboard was deleted and took a Chart and a Report with it.
C1_Witness ==
    /\ last.op = "delete_dashboard"
    /\ last.result = "ok"
    /\ last.deleted[2] >= 1
    /\ last.deleted[3] >= 1
    /\ ~Exists(dashboards, last.id)

ForeignKeysResolve ==
    /\ \A d \in DOMAIN dashboards : dashboards[d].owner \in users
    /\ \A c \in DOMAIN charts : charts[c].dashboard \in DOMAIN dashboards
    /\ \A r \in DOMAIN reports : reports[r].dashboard \in DOMAIN dashboards

\* C2: after every step each stored Chart's and Report's dashboard is a stored
\* Dashboard and each stored Dashboard's owner is an existing User; a create
\* or update whose foreign key does not resolve fails with an error and
\* leaves the store unchanged.
C2_ReferentialIntegrity ==
    [][/\ ForeignKeysResolve'
       /\ \A clean \in BOOLEAN :
             /\ last'.op = "create_dashboard" =>
                   \A f \in RelDashboardInputs :
                      (CreateDashboard(f, clean) /\ f.owner \notin users)
                         => Failed' /\ UNCHANGED store
             /\ last'.op = "update_dashboard" =>
                   \A f \in RelDashboardInputs, id \in DOMAIN dashboards :
                      (UpdateDashboard(id, f, clean) /\ f.owner \notin users)
                         => Failed' /\ UNCHANGED store
             /\ last'.op = "create_chart" =>
                   \A f \in RelChartInputs :
                      (CreateChart(f, clean) /\ ~Exists(dashboards, f.dashboard))
                         => Failed' /\ UNCHANGED store
             /\ last'.op = "update_chart" =>
                   \A f \in RelChartInputs, id \in DOMAIN charts :
                      (UpdateChart(id, f, clean) /\ ~Exists(dashboards, f.dashboard))
                         => Failed' /\ UNCHANGED store
             /\ last'.op = "create_report" =>
                   \A f \in RelReportInputs :
                      (CreateReport(f, clean) /\ ~Exists(dashboards, f.dashboard))
                         => Failed' /\ UNCHANGED store
             /\ last'.op = "update_report" =>
                   \A f \in RelReportInputs, id \in DOMAIN reports :
                      (UpdateReport(id, f, clean) /\ ~Exists(dashboards, f.dashboard))
                         => Failed' /\ UNCHANGED store]_vars

\* An update that pointed a stored Chart at a missing Dashboard was refused
\* by the database while Dashboards, Charts and Reports are stored.
C2_Witness ==
    /\ last.op = "update_chart"
    /\ last.result = "IntegrityError"
    /\ DOMAIN dashboards # {}
    /\ DOMAIN charts # {}
    /\ DOMAIN reports # {}

\* C3: deleting a User removes every Dashboard the User owns and every Chart
\* and Report of those Dashboards; nothing reachable from the User remains.
C3_DeleteUserCascades ==
    [][\A u \in Keys("User") :
          (last'.op = "delete_user" /\ DeleteUser(u) /\ u \in users) =>
             LET owned == {d \in DOMAIN dashboards : dashboards[d].owner = u}
             IN /\ last'.result = "ok"
                /\ u \notin users'
                /\ \A d \in owned : ~Exists(dashboards', d)
                /\ \A c \in DOMAIN charts :
                      charts[c].dashboard \in owned => ~Exists(charts', c)
                /\ \A r \in DOMAIN reports :
                      reports[r].dashboard \in owned => ~Exists(reports', r)
                /\ \A d \in DOMAIN dashboards' : dashboards'[d].owner # u
                /\ \A c \in DOMAIN charts' : charts'[c].dashboard \notin owned
                /\ \A r \in DOMAIN reports' : reports'[r].dashboard \notin owned]_vars

\* A User was deleted and took a Dashboard, a Chart and a Report with it.
C3_Witness ==
    /\ last.op = "delete_user"
    /\ last.result = "ok"
    /\ last.deleted[1] >= 1
    /\ last.deleted[2] >= 1
    /\ last.deleted[3] >= 1
    /\ last.id \notin users

\* Row id of table t is in t2 with the same fields.
Kept(t, t2, id) == Exists(t2, id) /\ t2[id] = t[id]

\* C10: deleting a Dashboard or a User leaves every DataSource, every other
\* Dashboard and every Chart and Report of another Dashboard as they were;
\* deleting a Chart or a Report leaves every Dashboard as it was.
C10_DeleteFrame ==
    [][/\ \A d \in Keys("Dashboard") :
             (last'.op = "delete_dashboard" /\ DeleteDashboard(d)) =>
                /\ users' = users
                /\ datasources' = datasources
                /\ \A e \in DOMAIN dashboards \ {d} : Kept(dashboards, dashboards', e)
                /\ \A c \in DOMAIN charts :
                      charts[c].dashboard # d => Kept(charts, charts', c)
                /\ \A r \in DOMAIN reports :
                      reports[r].dashboard # d => Kept(reports, reports', r)
       /\ \A u \in Keys("User") :
             (last'.op = "delete_user" /\ DeleteUser(u)) =>
                LET owned == {d \in DOMAIN dashboards : dashboards[d].owner = u}
                IN /\ users \ {u} \subseteq users'
                   /\ datasources' = datasources
                   /\ \A e \in DOMAIN dashboards \ owned : Kept(dashboards, dashboards', e)
                   /\ \A c \in DOMAIN charts :
                         charts[c].dashboard \notin owned => Kept(charts, charts', c)
                   /\ \A r \in DOMAIN reports :
                         reports[r].dashboard \notin owned => Kept(reports, reports', r)
       /\ \A c \in Keys("Chart") :
             (last'.op = "delete_chart" /\ DeleteChart(c)) =>
                /\ users' = users
                /\ dashboards' = dashboards
                /\ datasources' = datasources
                /\ reports' = reports
                /\ \A e \in DOMAIN charts \ {c} : Kept(charts, charts', e)
       /\ \A r \in Keys("Report") :
             (last'.op = "delete_report" /\ DeleteReport(r)) =>
                /\ users' = users
                /\ dashboards' = dashboards
                /\ datasources' = datasources
                /\ charts' = charts
                /\ \A e \in DOMAIN reports \ {r} : Kept(reports, reports', e)]_vars

\* A Dashboard was deleted with one of its Charts while another Dashboard, a
\* Chart of that other Dashboard and a DataSource are still stored.
C10_Witness ==
    /\ last.op = "delete_dashboard"
    /\ last.result = "ok"
    /\ last.deleted[2] >= 1
    /\ DOMAIN dashboards # {}
    /\ DOMAIN charts # {}
    /\ DOMAIN datasources # {}

EnumsValid ==
    /\ \A c \in DOMAIN charts : charts[c].chart_type \in CHART_TYPES
    /\ \A r \in DOMAIN reports : reports[r].format \in REPORT_FORMATS

Rejected == last.result = "ValidationError"

\* C4: create and update of a Chart whose chart_type is outside CHART_TYPES,
\* or of a Report whose format is outside REPORT_FORMATS, fail with
\* ValidationError and persist nothing, so that every stored chart_type and
\* format is a member of its enumerated set.
C4_EnumFieldsValidated ==
    [][/\ EnumsValid'
       /\ \A clean \in BOOLEAN :
             /\ last'.op = "create_chart" =>
                   \A f \in FldChartInputs :
                      (CreateChart(f, clean) /\ Exists(dashboards, f.dashboard)
                         /\ f.chart_type \notin CHART_TYPES)
                         => Rejected' /\ UNCHANGED store
             /\ last'.op = "update_chart" =>
                   \A f \in FldChartUpdates, id \in DOMAIN charts :
                      (UpdateChart(id, f, clean) /\ f.chart_type \notin CHART_TYPES)
                         => Rejected' /\ UNCHANGED store
             /\ last'.op = "create_report" =>
                   \A f \in FldReportInputs :
                      (CreateReport(f, clean) /\ Exists(dashboards, f.dashboard)
                         /\ "format" \in DOMAIN f /\ f.format \notin REPORT_FORMATS)
                         => Rejected' /\ UNCHANGED store
             /\ last'.op = "update_report" =>
                   \A f \in FldReportUpdates, id \in DOMAIN reports :
                      (UpdateReport(id, f, clean) /\ f.format \notin REPORT_FORMATS)
                         => Rejected' /\ UNCHANGED store]_vars

Supplied(r, f) == \A k \in DOMAIN f : r[k] = f[k]

\* Row r of the table t' was stamped by this step.
Stamped(r) == r.created_at = now /\ r.updated_at = now

\* C8: a successful create followed by get of the returned key yields a row
\* with the supplied fields as supplied, the omitted fields at their declared
\* defaults, and created_at and updated_at assigned.
C8_CreateThenGet ==
    [][\A clean \in BOOLEAN :
          /\ (last'.op = "create_dashboard" /\ last'.result = "ok") =>
                \A f \in FldDashboardInputs :
                   CreateDashboard(f, clean) =>
                      /\ Exists(dashboards', last'.id)
                      /\ Supplied(dashboards'[last'.id], f)
                      /\ Stamped(dashboards'[last'.id])
                      /\ "is_public" \notin DOMAIN f =>
                            dashboards'[last'.id].is_public = FALSE
          /\ (last'.op = "create_chart" /\ last'.result = "ok") =>
                \A f \in FldChartInputs :
                   CreateChart(f, clean) =>
                      /\ Exists(charts', last'.id)
                      /\ Supplied(charts'[last'.id], f)
                      /\ Stamped(charts'[last'.id])
                      /\ "position_x" \notin DOMAIN f => charts'[last'.id].position_x = 0
                      /\ "position_y" \notin DOMAIN f => charts'[last'.id].position_y = 0
                      /\ "width" \notin DOMAIN f => charts'[last'.id].width = 400
                      /\ "height" \notin DOMAIN f => charts'[last'.id].height = 300
          /\ (last'.op = "create_datasource" /\ last'.result = "ok") =>
                \A f \in FldDataSourceInputs :
                   CreateDataSource(f, clean) =>
                      /\ Exists(datasources', last'.id)
                      /\ Supplied(datasources'[last'.id], f)
                      /\ Stamped(datasources'[last'.id])
                      /\ "refresh_interval" \notin DOMAIN f =>
                            datasources'[last'.id].refresh_interval = 3600
                      /\ "last_refresh" \notin DOMAIN f =>
                            datasources'[last'.id].last_refresh = {}
                      /\ "is_active" \notin DOMAIN f =>
                            datasources'[last'.id].is_active = TRUE
          /\ (last'.op = "create_report" /\ last'.result = "ok") =>
                \A f \in FldReportInputs :
                   CreateReport(f, clean) =>
                      /\ Exists(reports', last'.id)
                      /\ Supplied(reports'[last'.id], f)
                      /\ Stamped(reports'[last'.id])
                      /\ "format" \notin DOMAIN f => reports'[last'.id].format = "pdf"
                      /\ "is_active" \notin DOMAIN f => reports'[last'.id].is_active = TRUE
                      /\ "last_run" \notin DOMAIN f => reports'[last'.id].last_run = {}
                      /\ "next_run" \notin DOMAIN f => reports'[last'.id].next_run = {}]_vars

\* A Report was created from its required fields alone, next to a Chart and
\* a DataSource created the same way and a Dashboard created with is_public.
C8_Witness ==
    /\ last.op = "create_report"
    /\ last.result = "ok"
    /\ Exists(reports, last.id)
    /\ reports[last.id].format = "pdf"
    /\ reports[last.id].last_run = {}
    /\ \E c \in DOMAIN charts : charts[c].width = 400 /\ charts[c].position_x = 0
    /\ \E d \in DOMAIN datasources : datasources[d].refresh_interval = 3600
    /\ \E d \in DOMAIN dashboards : dashboards[d].is_public

\* Every row of t that is still in t2 has the created_at it had.
CreatedAtKept(t, t2) ==
    \A id \in DOMAIN t \cap DOMAIN t2 : t2[id].created_at = t[id].created_at

\* C6 as stated: each successful update sets updated_at to a value strictly
\* greater than the one it had, and created_at stays as assigned at creation.
C6_UpdatedAtStrictlyGreater ==
    [][/\ \A id \in DOMAIN dashboards, f \in TimeDashboardInputs :
             (UpdateDashboard(id, f, FALSE) /\ last'.result = "ok") =>
                dashboards'[id].updated_at > dashboards[id].updated_at
       /\ \A id \in DOMAIN charts, f \in TimeChartInputs :
             (UpdateChart(id, f, FALSE) /\ last'.result = "ok") =>
                charts'[id].updated_at > charts[id].updated_at
       /\ \A id \in DOMAIN datasources, f \in RelDataSourceInputs :
             (UpdateDataSource(id, f, FALSE) /\ last'.result = "ok") =>
                datasources'[id].updated_at > datasources[id].updated_at
       /\ \A id \in DOMAIN reports, f \in TimeReportInputs :
             (UpdateReport(id, f, FALSE) /\ last'.result = "ok") =>
                reports'[id].updated_at > reports[id].updated_at
       /\ CreatedAtKept(dashboards, dashboards')
       /\ CreatedAtKept(charts, charts')
       /\ CreatedAtKept(datasources, datasources')
       /\ CreatedAtKept(reports, reports')]_vars

\* C6, amended: each successful update sets updated_at to the clock reading
\* of the update, which is never less than the value it had (and equals it
\* when the clock has not advanced since), and created_at stays as assigned
\* at creation.
C6_UpdatedAtRefreshed ==
    [][/\ \A id \in DOMAIN dashboards, f \in TimeDashboardInputs :
             (UpdateDashboard(id, f, FALSE) /\ last'.result = "ok") =>
                /\ dashboards'[id].updated_at = now
                /\ dashboards'[id].updated_at >= dashboards[id].updated_at
       /\ \A id \in DOMAIN charts, f \in TimeChartInputs :
             (UpdateChart(id, f, FALSE) /\ last'.result = "ok") =>
                /\ charts'[id].updated_at = now
                /\ charts'[id].updated_at >= charts[id].updated_at
       /\ \A id \in DOMAIN datasources, f \in RelDataSourceInputs :
             (UpdateDataSource(id, f, FALSE) /\ last'.result = "ok") =>
                /\ datasources'[id].updated_at = now
                /\ datasources'[id].updated_at >= datasources[id].updated_at
       /\ \A id \in DOMAIN reports, f \in TimeReportInputs :
             (UpdateReport(id, f, FALSE) /\ last'.result = "ok") =>
                /\ reports'[id].updated_at = now
                /\ reports'[id].updated_at >= reports[id].updated_at
       /\ CreatedAtKept(dashboards, dashboards')
       /\ CreatedAtKept(charts, charts')
       /\ CreatedAtKept(datasources, datasources')
       /\ CreatedAtKept(reports, reports')]_vars

\* A Report was updated after the clock advanced: its updated_at is the
\* clock reading and its created_at the earlier one.
C6_Witness ==
    /\ last.op = "update_report"
    /\ last.result = "ok"
    /\ Exists(reports, last.id)
    /\ reports[last.id].updated_at = now
    /\ reports[last.id].created_at < now

\* C9: list on Dashboard with the default order returns exactly the stored
\* Dashboards that match the filter, each once, in non-increasing order of
\* created_at: one with a later created_at never comes after one with an
\* earlier created_at.
C9_ListNewestFirst ==
    last.op \in {"list_all", "list_public"} =>
       LET rows == last.rows
           want == IF last.op = "list_public"
                      THEN {d \in DOMAIN dashboards : dashboards[d].is_public = TRUE}
                      ELSE DOMAIN dashboards
       IN /\ {rows[i] : i \in 1..Len(rows)} = want
          /\ Len(rows) = Cardinality(want)
          /\ \A i, j \in 1..Len(rows) :
                i < j => dashboards[rows[i]].created_at >= dashboards[rows[j]].created_at
          /\ \A i, j \in 1..Len(rows) :
                dashboards[rows[i]].created_at > dashboards[rows[j]].created_at => i < j

\* A list of two Dashboards created at different times: the later first.
C9_Witness ==
    /\ last.op = "list_all"
    /\ Len(last.rows) = 2
    /\ dashboards[last.rows[1]].created_at > dashboards[last.rows[2]].created_at
    /\ last.rows[1] > last.rows[2]

====
